---- MODULE Spec2Model ----
(***************************************************************************)
(* A model of the sequential-validators library: the ValidationResult      *)
(* class (src/src/result.js) over a heap of Result objects and of the      *)
(* JavaScript arrays their `errors` fields point to, and the               *)
(* SchemaValidator class (schema-validators.js) over JavaScript objects    *)
(* with their own-property enumeration order.                              *)
(***************************************************************************)
EXTENDS Naturals, Sequences, FiniteSets, TLC

VARIABLES
  results,       \* heap of ValidationResult objects: id -> [isValid, errors, value]
  arrays,        \* heap of JavaScript arrays: id -> sequence of errors
  callerArrays,  \* ids of the arrays the caller built itself (array literals)
  last,          \* the last call of the Result API and what it returned
  rules,         \* SchemaValidator.rules: a JavaScript object
  data,          \* the object handed to the last validate(data)
  out,           \* what the last validate(data) returned
  calls,         \* the validator invocations of the last validate(data)
  schemaCall,    \* the last call of the SchemaValidator API and what it returned
  lastSet,       \* history: field name -> the validator most recently set for it
  run            \* a fluent chain: the Results it made, the one it holds, its calls

algebraVars == <<results, arrays, callerArrays, last>>
schemaVars == <<rules, data, out, calls, schemaCall, lastSet>>
vars == <<results, arrays, callerArrays, last, rules, data, out, calls,
          schemaCall, lastSet, run>>

---------------------------------------------------------------------------
(* Bounds of the model. *)
MaxResults == 2
MaxErrors == 3
MaxRules == 2
MaxSteps == 2
\* Every Result brings at most one new array; the caller's literals share the room.
MaxArrays == MaxResults

---------------------------------------------------------------------------
(* JavaScript values, as far as the library looks at them: their typeof    *)
(* and their literal.                                                      *)
Undefined == [type |-> "undefined", lit |-> "undefined"]
Null == [type |-> "object", lit |-> "null"]
EmptyStr == [type |-> "string", lit |-> ""]
StrX == [type |-> "string", lit |-> "x"]
StrY == [type |-> "string", lit |-> "y"]
Zero == [type |-> "number", lit |-> "0"]
NaN == [type |-> "number", lit |-> "NaN"]
False == [type |-> "boolean", lit |-> "false"]

\* The values the caller wraps with ok(value) in the model.
Values == {StrX}

\* The error messages the caller passes to fail and addError.
Errs == {"a is required", "Value must be a string"}

\* The array literals the caller writes and may pass to fail.
ArrayLiterals == {<<"Value must be a string">>}

\* The functions the caller passes to map: x => x, x => 'y'.
MapFns == {"identity", "constY"}

Apply(f, v) ==
  CASE f = "identity" -> v
    [] f = "constY" -> StrY

---------------------------------------------------------------------------
(* The ValidationResult class.                                             *)

\* constructor(isValid, errors = []): the object holds a REFERENCE to errors.
NewResult(isValid, errorsRef, value) ==
  [isValid |-> isValid, errors |-> errorsRef, value |-> value]

NoCall == [op |-> "none", recv |-> 0, other |-> 0, ret |-> 0, called |-> FALSE,
           thrown |-> FALSE, val |-> Undefined, msg |-> ""]

Call(op, recv, other, ret, called) ==
  [op |-> op, recv |-> recv, other |-> other, ret |-> ret, called |-> called,
   thrown |-> FALSE, val |-> Undefined, msg |-> ""]

\* The number of array elements the heap holds (bounded by MaxErrors).
RECURSIVE HeapSize(_)
HeapSize(h) == IF h = <<>> THEN 0 ELSE Len(Head(h)) + HeapSize(Tail(h))

\* The errors of Result r, read through its reference, in heap h.
ErrorsOf(rs, h, r) == h[rs[r].errors]

\* The caller writes an array literal: const arr = [...].
NewArray(s) ==
  /\ Len(arrays) < MaxArrays
  /\ HeapSize(arrays) + Len(s) <= MaxErrors
  /\ arrays' = Append(arrays, s)
  /\ callerArrays' = callerArrays \cup {Len(arrays) + 1}
  /\ last' = Call("newArray", 0, 0, 0, FALSE)
  /\ UNCHANGED <<results, schemaVars, run>>

\* static ok(value): new ValidationResult(true, []) and result.value = value.
Ok(v) ==
  /\ Len(results) < MaxResults
  /\ Len(arrays) < MaxArrays
  /\ arrays' = Append(arrays, <<>>)
  /\ results' = Append(results, NewResult(TRUE, Len(arrays) + 1, v))
  /\ last' = Call("ok", 0, 0, Len(results) + 1, FALSE)
  /\ UNCHANGED <<callerArrays, schemaVars, run>>

\* static fail(errors) with a non-array argument: errorArray = [errors].
FailOne(e) ==
  /\ Len(results) < MaxResults
  /\ Len(arrays) < MaxArrays
  /\ HeapSize(arrays) < MaxErrors
  /\ arrays' = Append(arrays, <<e>>)
  /\ results' = Append(results, NewResult(FALSE, Len(arrays) + 1, Undefined))
  /\ last' = Call("fail", 0, 0, Len(results) + 1, FALSE)
  /\ UNCHANGED <<callerArrays, schemaVars, run>>

\* static fail(errors) with an array argument: errorArray = errors, the very
\* array the caller passed (any array the caller can reach, r.errors included).
FailArr(a) ==
  /\ Len(results) < MaxResults
  /\ results' = Append(results, NewResult(FALSE, a, Undefined))
  /\ last' = Call("fail", 0, a, Len(results) + 1, FALSE)
  /\ UNCHANGED <<arrays, callerArrays, schemaVars, run>>

\* static fail() without an argument: the default parameter, a new empty array.
FailNoArg ==
  /\ Len(results) < MaxResults
  /\ Len(arrays) < MaxArrays
  /\ arrays' = Append(arrays, <<>>)
  /\ results' = Append(results, NewResult(FALSE, Len(arrays) + 1, Undefined))
  /\ last' = Call("fail", 0, 0, Len(results) + 1, FALSE)
  /\ UNCHANGED <<callerArrays, schemaVars, run>>

\* addError(error): this.errors.push(error); this.isValid = false; return this.
AddError(r, e) ==
  /\ HeapSize(arrays) < MaxErrors
  /\ arrays' = [arrays EXCEPT ![results[r].errors] = Append(@, e)]
  /\ results' = [results EXCEPT ![r].isValid = FALSE]
  /\ last' = Call("addError", r, 0, r, FALSE)
  /\ UNCHANGED <<callerArrays, schemaVars, run>>

\* Merge with `this.isValid = other.isValid` in place of the guarded assignment.
MergeAssignsValidity(r, o) ==
  /\ \/ results[o].isValid
     \/ HeapSize(arrays) + Len(ErrorsOf(results, arrays, o)) <= MaxErrors
  /\ results' = [results EXCEPT ![r].isValid = results[o].isValid]
  /\ arrays' = [arrays EXCEPT ![results[r].errors] =
                  IF results[o].isValid THEN @ ELSE @ \o ErrorsOf(results, arrays, o)]
  /\ last' = Call("merge", r, o, r, FALSE)
  /\ UNCHANGED <<callerArrays, schemaVars, run>>

\* Merge with unshift in place of push: other's errors come first.
MergePrepends(r, o) ==
  /\ \/ results[o].isValid
     \/ HeapSize(arrays) + Len(ErrorsOf(results, arrays, o)) <= MaxErrors
  /\ IF ~results[o].isValid
     THEN /\ results' = [results EXCEPT ![r].isValid = FALSE]
          /\ arrays' = [arrays EXCEPT ![results[r].errors] =
                          ErrorsOf(results, arrays, o) \o @]
     ELSE UNCHANGED <<results, arrays>>
  /\ last' = Call("merge", r, o, r, FALSE)
  /\ UNCHANGED <<callerArrays, schemaVars, run>>

\* Merge without its `if (!other.isValid)`: the receiver always fails.
MergeUnconditional(r, o) ==
  /\ HeapSize(arrays) + Len(ErrorsOf(results, arrays, o)) <= MaxErrors
  /\ results' = [results EXCEPT ![r].isValid = FALSE]
  /\ arrays' = [arrays EXCEPT ![results[r].errors] =
                  @ \o ErrorsOf(results, arrays, o)]
  /\ last' = Call("merge", r, o, r, FALSE)
  /\ UNCHANGED <<callerArrays, schemaVars, run>>

\* merge(other): if (!other.isValid) { this.isValid = false;
\* this.errors.push(...other.errors) }; return this.  The spread reads
\* other.errors before push writes, also when both are the same array.
Merge(r, o) ==
  /\ \/ results[o].isValid
     \/ HeapSize(arrays) + Len(ErrorsOf(results, arrays, o)) <= MaxErrors
  /\ IF ~results[o].isValid
     THEN /\ results' = [results EXCEPT ![r].isValid = FALSE]
          /\ arrays' = [arrays EXCEPT ![results[r].errors] =
                          @ \o ErrorsOf(results, arrays, o)]
     ELSE UNCHANGED <<results, arrays>>
  /\ last' = Call("merge", r, o, r, FALSE)
  /\ UNCHANGED <<callerArrays, schemaVars, run>>

\* Map without its `if (!this.isValid) return this`.
MapNoShortCircuit(r, f) ==
  /\ Len(results) < MaxResults
  /\ Len(arrays) < MaxArrays
  /\ arrays' = Append(arrays, <<>>)
  /\ results' = Append(results,
                  NewResult(TRUE, Len(arrays) + 1, Apply(f, results[r].value)))
  /\ last' = Call("map", r, 0, Len(results) + 1, TRUE)
  /\ UNCHANGED <<callerArrays, schemaVars, run>>

\* map(fn): if (!this.isValid) return this; return ValidationResult.ok(fn(this.value)).
Map(r, f) ==
  /\ IF ~results[r].isValid
     THEN /\ last' = Call("map", r, 0, r, FALSE)
          /\ UNCHANGED <<results, arrays>>
     ELSE /\ Len(results) < MaxResults
          /\ Len(arrays) < MaxArrays
          /\ arrays' = Append(arrays, <<>>)
          /\ results' = Append(results,
                          NewResult(TRUE, Len(arrays) + 1, Apply(f, results[r].value)))
          /\ last' = Call("map", r, 0, Len(results) + 1, TRUE)
  /\ UNCHANGED <<callerArrays, schemaVars, run>>

\* The functions the caller passes to flatMap: v => ValidationResult.ok(f(v)),
\* v => ValidationResult.fail(e), and () => res for a Result res it holds.
Callbacks ==
  [kind : {"okOf"}, fn : MapFns, err : {""}, res : {0}]
    \cup [kind : {"failWith"}, fn : {""}, err : Errs, res : {0}]
    \cup [kind : {"held"}, fn : {""}, err : {""}, res : DOMAIN results]

\* flatMap(fn): if (!this.isValid) return this; return fn(this.value).
FlatMap(r, k) ==
  /\ IF ~results[r].isValid
     THEN /\ last' = Call("flatMap", r, 0, r, FALSE)
          /\ UNCHANGED <<results, arrays>>
     ELSE CASE k.kind = "held" ->
                 /\ last' = Call("flatMap", r, 0, k.res, TRUE)
                 /\ UNCHANGED <<results, arrays>>
            [] k.kind = "okOf" ->
                 /\ Len(results) < MaxResults
                 /\ Len(arrays) < MaxArrays
                 /\ arrays' = Append(arrays, <<>>)
                 /\ results' = Append(results,
                      NewResult(TRUE, Len(arrays) + 1, Apply(k.fn, results[r].value)))
                 /\ last' = Call("flatMap", r, 0, Len(results) + 1, TRUE)
            [] k.kind = "failWith" ->
                 /\ Len(results) < MaxResults
                 /\ Len(arrays) < MaxArrays
                 /\ HeapSize(arrays) < MaxErrors
                 /\ arrays' = Append(arrays, <<k.err>>)
                 /\ results' = Append(results,
                      NewResult(FALSE, Len(arrays) + 1, Undefined))
                 /\ last' = Call("flatMap", r, 0, Len(results) + 1, TRUE)
  /\ UNCHANGED <<callerArrays, schemaVars, run>>

\* join() called without its separator: the default ",".
RECURSIVE JoinDefaultSeparator(_, _)
JoinDefaultSeparator(s, sep) ==
  IF Len(s) = 0 THEN ""
  ELSE IF Len(s) = 1 THEN s[1]
  ELSE s[1] \o "," \o JoinDefaultSeparator(Tail(s), sep)

\* Array.prototype.join(sep) over an array of strings.
RECURSIVE Join(_, _)
Join(s, sep) ==
  IF Len(s) = 0 THEN ""
  ELSE IF Len(s) = 1 THEN s[1]
  ELSE s[1] \o sep \o Join(Tail(s), sep)

\* getOrThrow(): if (!this.isValid) throw new Error(`Validation failed: ${...}`);
\* return this.value.
GetOrThrow(r) ==
  /\ last' = IF ~results[r].isValid
             THEN [Call("getOrThrow", r, 0, 0, FALSE) EXCEPT
                     !.thrown = TRUE,
                     !.msg = "Validation failed: "
                               \o Join(ErrorsOf(results, arrays, r), ", ")]
             ELSE [Call("getOrThrow", r, 0, 0, FALSE) EXCEPT
                     !.val = results[r].value]
  /\ UNCHANGED <<results, arrays, callerArrays, schemaVars, run>>

---------------------------------------------------------------------------
(* The field validators a schema uses (field-validators.js).  A validator's *)
(* Result is written [isValid, errors, value], errors being the content of  *)
(* the new array that ok and fail give it.                                  *)

OkResult(v) == [isValid |-> TRUE, errors |-> <<>>, value |-> v]
FailResult(e) == [isValid |-> FALSE, errors |-> <<e>>, value |-> Undefined]

\* isString(value): typeof value !== 'string' fails.
isString(value) ==
  IF value.type # "string" THEN FailResult("Value must be a string")
  ELSE OkResult(value)

\* isNumber(value): typeof value !== 'number' || isNaN(value) fails.
isNumber(value) ==
  IF value.type # "number" \/ value = NaN THEN FailResult("Value must be a number")
  ELSE OkResult(value)

\* A required-check by truthiness (!value), which also turns down 0, NaN and false.
isRequiredTruthy(value, fieldName) ==
  IF value \in {Null, Undefined, EmptyStr, Zero, NaN, False}
  THEN FailResult(fieldName \o " is required")
  ELSE OkResult(value)

\* isRequired(value, fieldName = 'Value'): null, undefined and '' fail.
isRequired(value, fieldName) ==
  IF value = Null \/ value = Undefined \/ value = EmptyStr
  THEN FailResult(fieldName \o " is required")
  ELSE OkResult(value)

Validators == {"isString", "isNumber"}

\* validator(value): the schema calls every validator with one argument.
RunValidator(validator, value) ==
  CASE validator = "isString" -> isString(value)
    [] validator = "isNumber" -> isNumber(value)

---------------------------------------------------------------------------
(* JavaScript objects.  A rule mapping is the sequence of its properties    *)
(* [field, validator] in the order they were created; a data object is a    *)
(* function from its own property names to values.                          *)

\* The field names of the model; "2" and "10" are array indices.
Fields == {"email", "age", "2", "10"}
IndexKeys == {"2", "10"}

\* ToUint32 of a property name that is a canonical array index.
IndexValue(k) == CASE k = "2" -> 2 [] k = "10" -> 10

DataValues == {StrX, Zero}
DataObjects == UNION {[S -> DataValues] : S \in SUBSET Fields}

EmptyObject == <<>>

\* data[fieldName]: undefined for a property the object does not have (the
\* field names of the model are not properties of Object.prototype).
Lookup(d, f) == IF f \in DOMAIN d THEN d[f] ELSE Undefined

HasKey(o, f) == \E i \in DOMAIN o : o[i].field = f

\* The validator the mapping o holds for field f ("none" without the property).
ValidatorOf(o, f) ==
  IF HasKey(o, f) THEN o[CHOOSE i \in DOMAIN o : o[i].field = f].validator
  ELSE "none"

\* The assignment as `this.rules[fieldName] ??= validator`: a property that
\* exists keeps its validator.
SetPropertyKeepsFirst(o, f, v) ==
  IF HasKey(o, f) THEN o
  ELSE Append(o, [field |-> f, validator |-> v])

\* this.rules[fieldName] = validator: overwrites the property in place, or
\* creates it after the existing ones.
SetProperty(o, f, v) ==
  IF HasKey(o, f)
  THEN [i \in DOMAIN o |-> IF o[i].field = f THEN [field |-> f, validator |-> v] ELSE o[i]]
  ELSE Append(o, [field |-> f, validator |-> v])

IsIndexEntry(e) == e.field \in IndexKeys
IsStringEntry(e) == e.field \notin IndexKeys

RECURSIVE SortByIndex(_)
SortByIndex(es) ==
  IF es = <<>> THEN <<>>
  ELSE LET m == CHOOSE i \in DOMAIN es :
                  \A j \in DOMAIN es : IndexValue(es[i].field) <= IndexValue(es[j].field)
       IN <<es[m]>> \o SortByIndex(SubSeq(es, 1, m - 1) \o SubSeq(es, m + 1, Len(es)))

\* Object.entries(o): the array-index properties in ascending numeric order,
\* then the other string-keyed properties in creation order.
Entries(o) == SortByIndex(SelectSeq(o, IsIndexEntry)) \o SelectSeq(o, IsStringEntry)

---------------------------------------------------------------------------
(* The SchemaValidator class.                                               *)

NoOut == [called |-> FALSE, isValid |-> FALSE, errors |-> <<>>,
          value |-> [ref |-> "undefined", obj |-> EmptyObject]]

\* The loop with a `break` after the first failing field.
RECURSIVE ValidateLoopStopsAtFailure(_, _, _, _, _)
ValidateLoopStopsAtFailure(es, d, i, errors, log) ==
  IF i > Len(es) \/ Len(errors) > 0 THEN [errors |-> errors, calls |-> log]
  ELSE LET value == Lookup(d, es[i].field)
           result == RunValidator(es[i].validator, value)
           call == [field |-> es[i].field, validator |-> es[i].validator,
                    arg |-> value, isValid |-> result.isValid]
       IN IF ~result.isValid
          THEN ValidateLoopStopsAtFailure(es, d, i + 1,
                 Append(errors, [field |-> es[i].field, errors |-> result.errors]),
                 Append(log, call))
          ELSE ValidateLoopStopsAtFailure(es, d, i + 1, errors, Append(log, call))

\* The for loop of validate(data) from entry i on: one validator call per
\* entry, one {field, errors} record per failing Result.
RECURSIVE ValidateLoop(_, _, _, _, _)
ValidateLoop(es, d, i, errors, log) ==
  IF i > Len(es) THEN [errors |-> errors, calls |-> log]
  ELSE LET value == Lookup(d, es[i].field)
           result == RunValidator(es[i].validator, value)
           call == [field |-> es[i].field, validator |-> es[i].validator,
                    arg |-> value, isValid |-> result.isValid]
       IN IF ~result.isValid
          THEN ValidateLoop(es, d, i + 1,
                 Append(errors, [field |-> es[i].field, errors |-> result.errors]),
                 Append(log, call))
          ELSE ValidateLoop(es, d, i + 1, errors, Append(log, call))

\* The object validate returns on success when it keeps only the fields
\* that have a rule, in a new object.
RuledFieldsOnly(rs, d) ==
  [ref |-> "copy",
   obj |-> [f \in {g \in DOMAIN d : HasKey(rs, g)} |-> d[f]]]

\* ValidationResult.ok(data): the value is the data object itself.
ReturnedValue(rs, d) == [ref |-> "data", obj |-> d]

\* validate(data) on the rules rs: what it returns and the calls it makes.
SchemaValidate(rs, d) ==
  LET loop == ValidateLoop(Entries(rs), d, 1, <<>>, <<>>)
  IN [out |-> IF Len(loop.errors) > 0
              THEN [called |-> TRUE, isValid |-> FALSE, errors |-> loop.errors,
                    value |-> [ref |-> "undefined", obj |-> EmptyObject]]
              ELSE [called |-> TRUE, isValid |-> TRUE, errors |-> <<>>,
                    value |-> ReturnedValue(rs, d)],
      calls |-> loop.calls]

\* The rule mapping the caller writes as an object literal:
\* {email: isString, age: isNumber}.
SchemaLiterals ==
  {<<[field |-> "email", validator |-> "isString"],
     [field |-> "age", validator |-> "isNumber"]>>}

NoSchemaCall ==
  [op |-> "none", ret |-> "none", field |-> "", validator |-> "", replaced |-> "none"]

SchemaCall(op, ret) ==
  [op |-> op, ret |-> ret, field |-> "", validator |-> "", replaced |-> "none"]

\* The validators a mapping sets, by field name.
SetBy(o) == [f \in {o[i].field : i \in DOMAIN o} |-> ValidatorOf(o, f)]

\* new SchemaValidator(rules): this.rules = rules.
NewSchemaValidator(o) ==
  /\ rules' = o
  /\ data' = EmptyObject
  /\ out' = NoOut
  /\ calls' = <<>>
  /\ schemaCall' = SchemaCall("new", "validator")
  /\ lastSet' = SetBy(o)
  /\ UNCHANGED <<algebraVars, run>>

\* addRule(fieldName, validator): this.rules[fieldName] = validator; return this.
AddRule(f, v) ==
  /\ HasKey(rules, f) \/ Len(rules) < MaxRules
  /\ rules' = SetProperty(rules, f, v)
  /\ data' = EmptyObject
  /\ out' = NoOut
  /\ calls' = <<>>
  /\ schemaCall' = [op |-> "addRule", ret |-> "this", field |-> f, validator |-> v,
                    replaced |-> ValidatorOf(rules, f)]
  /\ lastSet' = [g \in DOMAIN lastSet \cup {f} |-> IF g = f THEN v ELSE lastSet[g]]
  /\ UNCHANGED <<algebraVars, run>>

\* validate(data).
Validate(d) ==
  \E returned \in {SchemaValidate(rules, d)} :
  /\ data' = d
  /\ out' = returned.out
  /\ calls' = returned.calls
  /\ schemaCall' = SchemaCall("validate", "result")
  /\ UNCHANGED <<rules, lastSet, algebraVars, run>>

\* validateSchema(data, schema): new SchemaValidator(schema).validate(data).
ValidateSchema(d, o) ==
  \E returned \in {SchemaValidate(o, d)} :
  /\ rules' = o
  /\ data' = d
  /\ out' = returned.out
  /\ calls' = returned.calls
  /\ schemaCall' = SchemaCall("validateSchema", "result")
  /\ lastSet' = SetBy(o)
  /\ UNCHANGED <<algebraVars, run>>

---------------------------------------------------------------------------
(* Fluent chains: a head call v1(x), then map and flatMap called on what    *)
(* the call before returned.  Every Result of a chain comes fresh from ok   *)
(* or fail, so its errors are written by content; the chain's heap is       *)
(* run.results and a Result's identity is its index there.                  *)

\* The arguments of the head call.
ChainInputs == {Undefined, Null, EmptyStr, StrX, Zero, False}

\* The field names the caller passes to isRequired as second argument.
FieldNames == {"email"}

\* The Result-returning functions of a chain: ValidationResult.ok,
\* x => ValidationResult.ok('y'), and three field validators.
ChainFns == {"ok", "okConstY", "isString", "isNumber", "isRequired"}

\* The functions the caller passes to map in a chain: those of MapFns and
\* x => typeof x.
ChainMapFns == MapFns \cup {"typeOf"}

\* The name of x => g(f(x)).
ComposeName(f, g) == f \o ";" \o g

ApplyNamed(f, v) ==
  IF f \in MapFns THEN Apply(f, v) ELSE [type |-> "string", lit |-> v.type]

\* fn(x) for a function passed to map, composed ones included.
ApplyFn(fn, v) ==
  IF fn \in ChainMapFns THEN ApplyNamed(fn, v)
  ELSE LET p == CHOOSE q \in ChainMapFns \X ChainMapFns : ComposeName(q[1], q[2]) = fn
       IN ApplyNamed(p[2], ApplyNamed(p[1], v))

\* fieldName = 'Value': the default stands in for an argument that is absent.
FieldNameOf(args) == IF Len(args) < 2 THEN "Value" ELSE args[2]

\* fn(...args) for a Result-returning function.
CallFn(fn, args) ==
  CASE fn = "ok" -> OkResult(args[1])
    [] fn = "okConstY" -> OkResult(Apply("constY", args[1]))
    [] fn = "isRequired" -> isRequired(args[1], FieldNameOf(args))
    [] OTHER -> RunValidator(fn, args[1])

NoRun == [results |-> <<>>, cur |-> 0, steps |-> <<>>]

ChainStep(method, fn, args, recv, ret, called) ==
  [method |-> method, fn |-> fn, args |-> args, recv |-> recv, ret |-> ret,
   called |-> called]

\* The argument lists of a head call: (x), and for isRequired also (x, name).
HeadArgs(fn) ==
  {<<x>> : x \in ChainInputs}
    \cup (IF fn = "isRequired" THEN ChainInputs \X FieldNames ELSE {})

\* v1(x): the head of a chain.
ChainHead(fn, args) ==
  /\ run' = [results |-> <<CallFn(fn, args)>>, cur |-> 1,
             steps |-> <<ChainStep("call", fn, args, 0, 1, TRUE)>>]
  /\ UNCHANGED <<algebraVars, schemaVars>>

\* A flatMap that calls fn on a failure as well.
FlatMapOnNoShortCircuit(rs, r, fn) ==
  [results |-> Append(rs, CallFn(fn, <<rs[r].value>>)), ret |-> Len(rs) + 1,
   called |-> TRUE, args |-> <<rs[r].value>>]

\* flatMap(fn): if (!this.isValid) return this; return fn(this.value).
FlatMapOn(rs, r, fn) ==
  IF ~rs[r].isValid
  THEN [results |-> rs, ret |-> r, called |-> FALSE, args |-> <<>>]
  ELSE [results |-> Append(rs, CallFn(fn, <<rs[r].value>>)), ret |-> Len(rs) + 1,
        called |-> TRUE, args |-> <<rs[r].value>>]

\* A map that writes fn(this.value) into the receiver and returns it.
MapOnInPlace(rs, r, fn) ==
  IF ~rs[r].isValid
  THEN [results |-> rs, ret |-> r, called |-> FALSE, args |-> <<>>]
  ELSE [results |-> [rs EXCEPT ![r].value = ApplyFn(fn, rs[r].value)], ret |-> r,
        called |-> TRUE, args |-> <<rs[r].value>>]

\* map(fn): if (!this.isValid) return this; return ValidationResult.ok(fn(this.value)).
MapOn(rs, r, fn) ==
  IF ~rs[r].isValid
  THEN [results |-> rs, ret |-> r, called |-> FALSE, args |-> <<>>]
  ELSE [results |-> Append(rs, OkResult(ApplyFn(fn, rs[r].value))), ret |-> Len(rs) + 1,
        called |-> TRUE, args |-> <<rs[r].value>>]

\* .flatMap(fn) on the Result the chain holds.
ChainFlatMap(fn) ==
  /\ run.cur # 0
  /\ Len(run.steps) <= MaxSteps
  /\ \E m \in {FlatMapOn(run.results, run.cur, fn)} :
       run' = [results |-> m.results, cur |-> m.ret,
               steps |-> Append(run.steps,
                          ChainStep("flatMap", fn, m.args, run.cur, m.ret, m.called))]
  /\ UNCHANGED <<algebraVars, schemaVars>>

\* .map(fn) on the Result the chain holds.
ChainMap(fn) ==
  /\ run.cur # 0
  /\ Len(run.steps) <= MaxSteps
  /\ \E m \in {MapOn(run.results, run.cur, fn)} :
       run' = [results |-> m.results, cur |-> m.ret,
               steps |-> Append(run.steps,
                          ChainStep("map", fn, m.args, run.cur, m.ret, m.called))]
  /\ UNCHANGED <<algebraVars, schemaVars>>

---------------------------------------------------------------------------
SchemaInit ==
  /\ rules = EmptyObject
  /\ data = EmptyObject
  /\ out = NoOut
  /\ calls = <<>>
  /\ schemaCall = NoSchemaCall
  /\ lastSet = SetBy(EmptyObject)

Init ==
  /\ results = <<>>
  /\ arrays = <<>>
  /\ callerArrays = {}
  /\ last = NoCall
  /\ SchemaInit
  /\ run = NoRun

Next ==
  \/ \E s \in ArrayLiterals : NewArray(s)
  \/ \E v \in Values : Ok(v)
  \/ \E e \in Errs : FailOne(e)
  \/ \E a \in DOMAIN arrays : FailArr(a)
  \/ FailNoArg
  \/ \E r \in DOMAIN results, e \in Errs : AddError(r, e)
  \/ \E r \in DOMAIN results, o \in DOMAIN results : Merge(r, o)
  \/ \E r \in DOMAIN results, f \in MapFns : Map(r, f)
  \/ \E r \in DOMAIN results, k \in Callbacks : FlatMap(r, k)
  \/ \E r \in DOMAIN results : GetOrThrow(r)

Spec == Init /\ [][Next]_vars

SchemaNext ==
  \/ \E o \in SchemaLiterals : NewSchemaValidator(o)
  \/ \E f \in Fields, v \in Validators : AddRule(f, v)
  \/ \E d \in DataObjects : Validate(d)
  \/ \E d \in DataObjects, o \in SchemaLiterals : ValidateSchema(d, o)

SchemaSpec == Init /\ [][SchemaNext]_vars

ChainNext ==
  \/ \E fn \in ChainFns : \E args \in HeadArgs(fn) : ChainHead(fn, args)
  \/ \E fn \in ChainFns : ChainFlatMap(fn)
  \/ \E fn \in ChainMapFns : ChainMap(fn)

ChainSpec == Init /\ [][ChainNext]_vars

---------------------------------------------------------------------------
(* Properties of the Result algebra, checked under Spec.                   *)

Errors(r) == ErrorsOf(results, arrays, r)

\* C1: in every reachable Result, isValid is false if and only if errors is
\* non-empty.
C1_ValidIffNoErrors ==
  \A r \in DOMAIN results : results[r].isValid <=> Errors(r) = <<>>

\* C2: a Result whose isValid is false keeps it false under every later call,
\* and isValid changes only from true to false, in a step that is addError on
\* that Result or merge into it of a failing Result.
C2_OnlySuccessToFailure ==
  [][\A r \in DOMAIN results :
       /\ ~results[r].isValid => ~results'[r].isValid
       /\ results'[r].isValid # results[r].isValid =>
            /\ results[r].isValid
            /\ last'.recv = r
            /\ \/ last'.op = "addError"
               \/ last'.op = "merge" /\ ~results[last'.other].isValid]_vars

\* C2's case: a success Result was merged into a failure, which is still a failure.
C2_Witness ==
  /\ last.op = "merge"
  /\ results[last.other].isValid
  /\ ~results[last.recv].isValid
  /\ Errors(last.recv) # <<>>

\* C3: whenever isValid is false, value is undefined/absent.
C3_ValueOnlyWhenValid ==
  \A r \in DOMAIN results : ~results[r].isValid => results[r].value = Undefined

\* C4: map and flatMap on a failing Result r do not invoke the function and
\* return r itself, still failing and with the errors it had before the call.
C4_FailureShortCircuit ==
  [][\A r \in DOMAIN results :
       (~results[r].isValid /\ last'.op \in {"map", "flatMap"} /\ last'.recv = r) =>
         /\ ~last'.called
         /\ last'.ret = r
         /\ ~results'[r].isValid
         /\ ErrorsOf(results', arrays', r) = Errors(r)]_vars

\* C4's case: map was called on a failure that holds two errors.
C4_Witness ==
  /\ last.op = "map"
  /\ ~results[last.recv].isValid
  /\ Len(Errors(last.recv)) = 2
  /\ last.ret = last.recv

C6_MergeSuccessIsNoOp ==
  [][\A r, o \in DOMAIN results :
       (last'.op = "merge" /\ last'.recv = r /\ last'.other = o
          /\ results[o].isValid) =>
         /\ results'[r] = results[r]
         /\ ErrorsOf(results', arrays', r) = Errors(r)
         /\ last'.ret = r]_vars

\* C6's case: a success was merged into another success, which is still one.
C6_Witness ==
  /\ last.op = "merge"
  /\ last.recv # last.other
  /\ results[last.other].isValid
  /\ results[last.recv].isValid
  /\ results[last.recv].value = StrX

\* C7: addError and merge change only the receiver: every other Result's
\* isValid and errors, and every array the caller built and may have passed to
\* fail, are as before the call.
C7_OnlyReceiverChanges ==
  [][last'.op \in {"addError", "merge"} =>
       /\ \A r \in DOMAIN results \ {last'.recv} :
            /\ results'[r].isValid = results[r].isValid
            /\ ErrorsOf(results', arrays', r) = Errors(r)
       /\ \A a \in callerArrays : arrays'[a] = arrays[a]]_vars

\* The message C8 states, built from the left: e1, then ", " and the next error.
RECURSIVE Joined(_)
Joined(s) ==
  IF Len(s) = 0 THEN ""
  ELSE IF Len(s) = 1 THEN s[1]
  ELSE Joined(SubSeq(s, 1, Len(s) - 1)) \o ", " \o s[Len(s)]

\* C8: getOrThrow returns value from a success; from a failure it returns
\* nothing and throws "Validation failed: " followed by the errors joined with
\* ", "; it leaves the Result unchanged.
C8_GetOrThrow ==
  [][last'.op = "getOrThrow" =>
       LET r == last'.recv IN
       /\ results' = results
       /\ arrays' = arrays
       /\ IF results[r].isValid
          THEN ~last'.thrown /\ last'.val = results[r].value
          ELSE /\ last'.thrown
               /\ last'.val = Undefined
               /\ last'.msg = "Validation failed: " \o Joined(Errors(r))
               /\ Errors(r) = <<"a is required">> =>
                    last'.msg = "Validation failed: a is required"]_vars

\* C8's case: getOrThrow threw on a failure that holds two errors.
C8_Witness ==
  /\ last.op = "getOrThrow"
  /\ last.thrown
  /\ last.msg = "Validation failed: a is required, Value must be a string"

---------------------------------------------------------------------------
(* Properties of SchemaValidator.validate, checked under SchemaSpec.       *)

\* Whether the rule e rejects its field of the data last validated.
RuleFails(e) == ~RunValidator(e.validator, Lookup(data, e.field)).isValid

FieldsOf(records) == [i \in DOMAIN records |-> records[i].field]

\* The place of field f among the rules, in the order they were inserted.
InsertedAt(f) == CHOOSE i \in DOMAIN rules : rules[i].field = f

\* validate called each rule's validator once, on data[fieldName].
EveryRuleCalledOnce ==
  /\ Len(calls) = Len(rules)
  /\ \A i \in DOMAIN rules :
       \E j \in DOMAIN calls :
         /\ calls[j].field = rules[i].field
         /\ calls[j].validator = rules[i].validator
         /\ calls[j].arg = Lookup(data, rules[i].field)
         /\ \A k \in DOMAIN calls : calls[k].field = rules[i].field => k = j

\* validate's errors are one {field, errors} record per failing field.
OneRecordPerFailingField ==
  /\ (\E i \in DOMAIN rules : RuleFails(rules[i])) => ~out.isValid
  /\ ~out.isValid =>
       /\ {out.errors[i].field : i \in DOMAIN out.errors}
            = {rules[i].field : i \in {j \in DOMAIN rules : RuleFails(rules[j])}}
       /\ \A i, j \in DOMAIN out.errors :
            out.errors[i].field = out.errors[j].field => i = j
       /\ \A i \in DOMAIN out.errors :
            out.errors[i].errors =
              RunValidator(rules[InsertedAt(out.errors[i].field)].validator,
                           Lookup(data, out.errors[i].field)).errors

\* C9 as stated: validate calls every rule's validator once on data[fieldName]
\* and a failure's records are ordered as the rules were inserted, for every
\* set of field names.
C9_ErrorsInInsertionOrder ==
  out.called =>
    /\ EveryRuleCalledOnce
    /\ OneRecordPerFailingField
    /\ ~out.isValid => FieldsOf(out.errors) = FieldsOf(SelectSeq(rules, RuleFails))

\* The order of Object.entries: an array-index name before any other name,
\* array-index names by ascending number, other names as inserted.
EnumeratedBefore(f, g) ==
  \/ f \in IndexKeys /\ g \in IndexKeys /\ IndexValue(f) < IndexValue(g)
  \/ f \in IndexKeys /\ g \notin IndexKeys
  \/ f \notin IndexKeys /\ g \notin IndexKeys /\ InsertedAt(f) < InsertedAt(g)

\* C9, amended: validate calls every rule's validator once on data[fieldName]
\* and a failure's records, one per failing field, follow the enumeration order
\* of the rule mapping: array-index field names first, in ascending numeric
\* order, then the other field names in insertion order.
C9_ErrorsInEnumerationOrder ==
  out.called =>
    /\ EveryRuleCalledOnce
    /\ OneRecordPerFailingField
    /\ ~out.isValid =>
         \A i, j \in DOMAIN out.errors :
           i < j => EnumeratedBefore(out.errors[i].field, out.errors[j].field)

\* C9's case: the rules were inserted as email, then "2"; both fields failed,
\* and the record of "2" comes first.
C9_Witness ==
  /\ out.called
  /\ FieldsOf(rules) = <<"email", "2">>
  /\ FieldsOf(out.errors) = <<"2", "email">>
  /\ Len(calls) = 2

\* C10: validate returns success if and only if every rule's validator accepts
\* data[fieldName], undefined for a field data lacks; a success carries the
\* data object itself, with every field it had; and data objects that agree
\* on the fields that have a rule get the same outcome.
C10_SuccessIffAllRulesPass ==
  out.called =>
    /\ out.isValid <=> \A i \in DOMAIN rules : ~RuleFails(rules[i])
    /\ \A j \in DOMAIN calls :
         calls[j].arg = IF calls[j].field \in DOMAIN data
                        THEN data[calls[j].field] ELSE Undefined
    /\ out.isValid => out.errors = <<>> /\ out.value = [ref |-> "data", obj |-> data]
    /\ \A d \in DataObjects :
         (\A i \in DOMAIN rules :
            Lookup(d, rules[i].field) = Lookup(data, rules[i].field)) =>
           /\ SchemaValidate(rules, d).out.isValid = out.isValid
           /\ SchemaValidate(rules, d).out.errors = out.errors

\* C10's case: a success on data that has a field without a rule and lacks
\* no field that has one, the extra field still in the returned object.
C10_Witness ==
  /\ out.called
  /\ out.isValid
  /\ FieldsOf(rules) = <<"email">>
  /\ DOMAIN data = {"email", "age"}
  /\ DOMAIN out.value.obj = {"email", "age"}

\* The calls the last validate made to the validator of field f.
CallsFor(f) == {j \in DOMAIN calls : calls[j].field = f}

\* C11: every addRule returns the validator it was called on; the rule set
\* holds for each field name exactly the validator most recently set for it,
\* by the constructor's mapping or a later addRule; and validate invokes that
\* validator, and no other, once for the field.
C11_LatestRulePerField ==
  /\ schemaCall.op = "addRule" => schemaCall.ret = "this"
  /\ \A f \in Fields :
       IF f \in DOMAIN lastSet
       THEN /\ Cardinality({i \in DOMAIN rules : rules[i].field = f}) = 1
            /\ \A i \in DOMAIN rules :
                 rules[i].field = f => rules[i].validator = lastSet[f]
       ELSE \A i \in DOMAIN rules : rules[i].field # f
  /\ out.called =>
       \A f \in Fields :
         IF f \in DOMAIN lastSet
         THEN /\ Cardinality(CallsFor(f)) = 1
              /\ \A j \in CallsFor(f) : calls[j].validator = lastSet[f]
         ELSE CallsFor(f) = {}

\* C11's case: addRule has replaced the isString rule of email by isNumber,
\* beside another rule.
C11_Witness ==
  /\ schemaCall.op = "addRule"
  /\ schemaCall.field = "email"
  /\ schemaCall.replaced = "isString"
  /\ schemaCall.validator = "isNumber"
  /\ Len(rules) = 2

---------------------------------------------------------------------------
(* Properties of fluent chains, checked under ChainSpec.                   *)

\* The chain is v1(x).flatMap(v2).flatMap(v3)...: flatMap calls only.
FlatMapChain ==
  /\ run.steps # <<>>
  /\ \A i \in 2..Len(run.steps) : run.steps[i].method = "flatMap"

\* The i-th validator of the chain was invoked and its Result is a failure.
FailsAt(i) == run.steps[i].called /\ ~run.results[run.steps[i].ret].isValid

FailingSteps == {i \in DOMAIN run.steps : FailsAt(i)}

\* C12: in a chain v1(x).flatMap(v2).flatMap(v3) the validators are applied
\* left to right, each to the value carried by the success before it; the
\* chain's result is the Result of the first validator that fails, and no
\* later validator is invoked; when none fails the result is the last
\* validator's Result.  ok(v).flatMap(f) is exactly the Result f(v).
C12_FlatMapChain ==
  FlatMapChain =>
    /\ \A i \in DOMAIN run.steps : run.steps[i].called =>
         /\ run.steps[i].ret \in DOMAIN run.results
         /\ run.results[run.steps[i].ret] = CallFn(run.steps[i].fn, run.steps[i].args)
         /\ \A j \in 1..(i - 1) : run.steps[j].ret # run.steps[i].ret
         /\ i > 1 =>
              /\ run.steps[i - 1].called
              /\ run.results[run.steps[i - 1].ret].isValid
              /\ run.steps[i].args = <<run.results[run.steps[i - 1].ret].value>>
    /\ IF FailingSteps # {}
       THEN \E k \in FailingSteps :
              /\ \A i \in FailingSteps : k <= i
              /\ \A i \in DOMAIN run.steps : i > k => ~run.steps[i].called
              /\ \A i \in DOMAIN run.steps : i >= k => run.steps[i].ret = run.steps[k].ret
              /\ run.cur = run.steps[k].ret
       ELSE /\ \A i \in DOMAIN run.steps : run.steps[i].called
            /\ run.cur = run.steps[Len(run.steps)].ret
    /\ (run.steps[1].fn = "ok" /\ Len(run.steps) = 2) =>
         /\ run.steps[2].called
         /\ run.cur = run.steps[2].ret
         /\ run.results[run.cur] = CallFn(run.steps[2].fn, <<run.steps[1].args[1]>>)

\* isString('x').flatMap(isNumber).flatMap(isRequired): isNumber fails, its
\* Result is the chain's result and isRequired is not invoked.
C12_Witness ==
  /\ FlatMapChain
  /\ Len(run.steps) = 3
  /\ run.steps[1].fn = "isString" /\ run.steps[1].args = <<StrX>>
  /\ run.steps[2].fn = "isNumber" /\ run.steps[2].called
  /\ run.steps[3].fn = "isRequired" /\ ~run.steps[3].called
  /\ run.cur = run.steps[2].ret
  /\ run.results[run.cur] = FailResult("Value must be a number")

\* The map calls of the chain whose receiver is a success.
MapStepsOnSuccess ==
  {i \in DOMAIN run.steps :
     run.steps[i].method = "map" /\ run.results[run.steps[i].recv].isValid}

\* The value of ok(v).map(fn), computed on a heap of its own.
ValueOfOkMap(v, fn) ==
  LET m == MapOn(<<OkResult(v)>>, 1, fn) IN m.results[m.ret].value

\* C13: for a success Result r, r.map(f) returns a new success Result,
\* distinct from r, with value f(r.value) and empty errors, and r is left as
\* it was; hence ok(v).map(f).map(g) carries the same value as
\* ok(v).map(x => g(f(x))).
C13_MapOnSuccess ==
  /\ \A i \in MapStepsOnSuccess :
       LET step == run.steps[i] IN
       /\ step.called
       /\ step.ret # step.recv
       /\ \A j \in 1..(i - 1) : run.steps[j].ret # step.ret
       /\ run.results[step.recv] = OkResult(step.args[1])
       /\ run.results[step.ret] =
            [isValid |-> TRUE, errors |-> <<>>,
             value |-> ApplyFn(step.fn, run.results[step.recv].value)]
  /\ ( /\ Len(run.steps) = 3
       /\ run.steps[1].fn = "ok"
       /\ run.steps[2].method = "map"
       /\ run.steps[3].method = "map" ) =>
       run.results[run.cur].value =
         ValueOfOkMap(run.steps[1].args[1],
                      ComposeName(run.steps[2].fn, run.steps[3].fn))

\* ok(0).map(x => typeof x).map(x => typeof x): three Results, 0, 'number'
\* and 'string'.
C13_Witness ==
  /\ Len(run.steps) = 3
  /\ run.steps[1].fn = "ok" /\ run.steps[1].args = <<Zero>>
  /\ run.steps[2].method = "map" /\ run.steps[2].fn = "typeOf"
  /\ run.steps[3].method = "map" /\ run.steps[3].fn = "typeOf"
  /\ run.results = <<OkResult(Zero), OkResult([type |-> "string", lit |-> "number"]),
                     OkResult([type |-> "string", lit |-> "string"])>>
  /\ run.cur = 3

\* The calls of isRequired a chain made, as its head or from a flatMap.
IsRequiredCalls ==
  {i \in DOMAIN run.steps : run.steps[i].fn = "isRequired" /\ run.steps[i].called}

\* The fieldName an isRequired call reports: the one passed, 'Value' when
\* none was passed.
ReportedName(args) == IF Len(args) = 2 THEN args[2] ELSE "Value"

\* C14: isRequired(value, fieldName) returns a failure exactly when value is
\* null, undefined or the empty string, with the single error
\* "<fieldName> is required" (fieldName defaulting to 'Value'); for every
\* other value, 0 and false included, it returns a success wrapping the
\* unmodified value.
C14_IsRequired ==
  \A i \in IsRequiredCalls :
    LET value == run.steps[i].args[1]
        returned == run.results[run.steps[i].ret]
    IN /\ ~returned.isValid <=> value \in {Null, Undefined, EmptyStr}
       /\ ~returned.isValid =>
            returned.errors = <<ReportedName(run.steps[i].args) \o " is required">>
       /\ returned.isValid => returned.value = value /\ returned.errors = <<>>
       /\ run.steps[i].args = <<Null>> => returned.errors = <<"Value is required">>
       /\ run.steps[i].args = <<EmptyStr, "email">> =>
            returned.errors = <<"email is required">>
       /\ value \in {Zero, False} => returned.isValid

\* isRequired(0, 'email') is a success that carries 0.
C14_Witness ==
  /\ Len(run.steps) = 1
  /\ run.steps[1].fn = "isRequired"
  /\ run.steps[1].args = <<Zero, "email">>
  /\ run.results = <<OkResult(Zero)>>
====
